---- MODULE Spec2Model ----
(***************************************************************************)
(* Model of the link layer of ntex-amqp: the sender link of src/link.rs    *)
(* (credit accounting, pending-transfers queue, delivery promises) and the *)
(* receiver link of src/rcvlink.rs (credit grant, transfer admission).     *)
(*                                                                         *)
(* Rust u32 arithmetic is kept with its wrap-around, the largest value     *)
(* u32::MAX scaled down to U32Max so that every value of a counter and of  *)
(* a Flow field can be enumerated.  `a + b` and `a - b` on u32 panic in a  *)
(* build with overflow checks (the debug profile) and wrap in a build      *)
(* without them (the release profile); overflow_checks picks the build.    *)
(***************************************************************************)
EXTENDS Integers, Sequences, FiniteSets, TLC

\* ---------------------------------------------------------------- bounds
\* scaled u32::MAX (SequenceNo, link_credit, credit)
U32Max == 2
\* number of SenderLink::send calls in one behaviour; no more than U32Max, as
\* a link does not live to count 2^32 deliveries
MaxSends == 2

\* number of ReceiverLink::set_link_credit calls in one behaviour
MaxGrants == 2
\* number of Transfers the session routes to the receiver link
MaxTransfers == 3
\* number of ReceiverLink::close / close_with_error calls
MaxCloses == 1

\* the longest Binary, String and Symbol content a Variant is built from
MaxContent == 2

\* scaled i64::MAX (what as_long returns); larger than U32Max, as i64 holds
\* every u32
I64Max == 3

\* the longest idle timeout a Heartbeat is constructed with, in clock ticks
MaxInterval == 3
\* the clock time at which a behaviour of the Heartbeat stops advancing
MaxTime == 5

U32Mod == U32Max + 1
U32 == 0 .. (U32Mod - 1)

\* ---------------------------------------------------------------- values
None == << >>
Some(v) == << v >>
unwrap_or(o, d) == IF o = None THEN d ELSE o[1]

\* AmqpTransportError values a link is detached with
Errors == {"Disconnected", "LinkDetached"}
\* remote handles a sender link is constructed with
Handles == {1}
\* local handles a receiver link is constructed with
RcvHandles == {2}
\* attach.initial_delivery_count() values a receiver link is constructed with:
\* the smallest and the largest SequenceNo
InitialDeliveryCounts == {0, U32Max}
\* LinkError::TransferLimitExceeded as an error condition
TransferLimitExceeded == "amqp:link:transfer-limit-exceeded"
\* errors a caller closes a receiver link with (close, close_with_error)
CloseErrors == {None, Some("amqp:internal-error")}
\* inbound Transfers are named by their order of arrival
TransferIds == 1 .. MaxTransfers
\* what a delivery promise resolves with
Resolutions == {<< "Ok", "Accepted" >>, << "Err", "Disconnected" >>}
\* messages are named by the number of the send call that carries them
MsgIds == 1 .. MaxSends

\* peer Flow frames: delivery_count and link_credit are Option<u32>
OptU32 == {None} \cup {Some(v) : v \in U32}
Flows == [delivery_count : OptU32, link_credit : OptU32, echo : BOOLEAN]
NoFlow == [delivery_count |-> None, link_credit |-> None, echo |-> FALSE]

\* u32 `+` and `-`: the wrapped value and whether the exact result left u32
add_u32(a, b) == [v |-> (a + b) % U32Mod, ovf |-> (a + b) >= U32Mod]
sub_u32(a, b) == [v |-> (a - b + U32Mod) % U32Mod, ovf |-> a < b]
max_u32(a, b) == IF a >= b THEN a ELSE b
Min(a, b) == IF a <= b THEN a ELSE b

VARIABLES
    overflow_checks,    \* TRUE: arithmetic overflow panics; FALSE: it wraps
    remote_handle,      \* SenderLinkInner.remote_handle
    delivery_count,     \* SenderLinkInner.delivery_count
    link_credit,        \* SenderLinkInner.link_credit
    pending_transfers,  \* SenderLinkInner.pending_transfers (front first)
    error,              \* SenderLinkInner.error
    session_transfers,  \* calls of session.send_transfer, in call order
    session_flows,      \* Flows the link has asked the session to send
    promise,            \* promise[m]: what was sent into m's oneshot, in order
    nsends,             \* number of send calls made so far
    panicked,           \* an operation of the sender link panicked
    last,               \* the last operation, its arguments and the state before it
    rcv_handle,         \* ReceiverLinkInner.handle
    rcv_credit,         \* ReceiverLinkInner.credit
    rcv_delivery_count, \* ReceiverLinkInner.delivery_count
    queue,              \* ReceiverLinkInner.queue (front first)
    closed,             \* ReceiverLinkInner.closed
    reader_task,        \* ReceiverLinkInner.reader_task: "empty", "registered", "notified"
    rcv_flows,          \* calls of session.rcv_link_flow, in call order
    detach_requests,    \* calls of session.detach_receiver_link, in call order
    close_replies,      \* what close sent into its own oneshot, in call order
    granted,            \* sum of the credit passed to set_link_credit so far
    admitted,           \* the Transfers pushed onto queue so far, in order
    ngrants,            \* number of set_link_credit calls
    narrived,           \* number of handle_transfer calls
    ncloses,            \* number of close calls by the caller
    rcv_panicked,       \* an operation of the receiver link panicked
    rcv_last,           \* the last receiver operation and the state before it
    peer_seen,          \* how many of rcv_flows have reached the peer
    peer_sent           \* how many Transfers the peer has sent on the link

VARIABLES
    time,               \* what Heartbeat.time.now() returns: the clock
    expire_local,       \* Heartbeat.expire_local
    expire_remote,      \* Heartbeat.expire_remote
    local,              \* Heartbeat.local
    remote,             \* Heartbeat.remote
    delay,              \* Heartbeat.delay: its deadline, and whether the
                        \* polling task is registered with the timer
    hb_state,           \* "running", or how the heartbeat ended
    last_inbound,       \* when the last inbound frame was recorded
    hb_last             \* the last Heartbeat operation, its result and the
                        \* Heartbeat it was applied to

VARIABLES
    cfg,                \* Inner.config: the server's Configuration
    hs_pc,              \* the stage the future of ServerService::call is at
    hs_sasl,            \* TRUE on the Either::B(Either::A(..)) branch (SASL)
    hs_log,             \* what was read from and written to the stream, and
                        \* what was constructed, in order
    hs_open,            \* the Open that open_connection has read, if any
    hs_error,           \* the HandshakeError the future failed with, if any
    connection,         \* the Connection, as the Open it was made from
    dispatcher          \* whether Dispatcher::new has been called

VARIABLES
    variant_a,          \* a Variant
    variant_b,          \* another Variant
    variant_cmp,        \* what comparing them with == returned, once compared
    variant_long        \* what variant_a.as_long() returned, once called

sender_vars == << remote_handle, delivery_count, link_credit,
                  pending_transfers, error, session_transfers, session_flows,
                  promise, nsends,
                  panicked, last >>

receiver_vars == << rcv_handle, rcv_credit, rcv_delivery_count, queue, closed,
                    reader_task, rcv_flows, detach_requests, close_replies,
                    granted, admitted, ngrants, narrived, ncloses, rcv_panicked,
                    rcv_last, peer_seen, peer_sent >>

hb_vars == << time, expire_local, expire_remote, local, remote, delay, hb_state,
              last_inbound, hb_last >>

hs_vars == << cfg, hs_pc, hs_sasl, hs_log, hs_open, hs_error, connection, dispatcher >>

variant_vars == << variant_a, variant_b, variant_cmp, variant_long >>

\* what the operations of a link leave alone
conn_vars == << hb_vars, hs_vars, variant_vars >>

\* what the operations of a connection leave alone
link_vars == << overflow_checks, sender_vars, receiver_vars, variant_vars >>

vars == << overflow_checks, sender_vars, receiver_vars, conn_vars >>

\* the sender link as one value
SenderLinkInner ==
    [ remote_handle |-> remote_handle,
      delivery_count |-> delivery_count,
      link_credit |-> link_credit,
      pending_transfers |-> pending_transfers,
      error |-> error,
      session_transfers |-> session_transfers,
      session_flows |-> session_flows,
      promise |-> promise,
      panicked |-> panicked ]

SetSenderLinkInner(self) ==
    /\ remote_handle' = self.remote_handle
    /\ delivery_count' = self.delivery_count
    /\ link_credit' = self.link_credit
    /\ pending_transfers' = self.pending_transfers
    /\ error' = self.error
    /\ session_transfers' = self.session_transfers
    /\ session_flows' = self.session_flows
    /\ promise' = self.promise
    /\ panicked' = self.panicked

\* send_transfer that drops the message instead of handing it over
send_transfer_dropped(self, handle, message, credit) == self

\* session.send_transfer(handle, message, promise): record the call, and
\* with it the link_credit the link had when it decided to hand over
send_transfer(self, handle, message, credit) ==
    [self EXCEPT !.session_transfers =
        Append(@, [handle |-> handle, message |-> message, credit |-> credit])]

\* fails the front pending transfer only and leaves the others queued
fail_pending_front(self, err) ==
    IF self.pending_transfers = << >> THEN self
    ELSE [self EXCEPT !.pending_transfers = Tail(@),
                      !.promise[Head(self.pending_transfers)] =
                            Append(@, << "Err", err >>)]

\* for tr in pending_transfers.drain(..) { tr.promise.send(Err(err)) }
RECURSIVE fail_pending(_, _)
fail_pending(self, err) ==
    IF self.pending_transfers = << >> THEN self
    ELSE LET tr == Head(self.pending_transfers) IN
         fail_pending(
            [self EXCEPT !.pending_transfers = Tail(@),
                         !.promise[tr] = Append(@, << "Err", err >>)],
            err)

detached(self, err) == [fail_pending(self, err) EXCEPT !.error = Some(err)]

set_error(self, err) == [fail_pending(self, err) EXCEPT !.error = Some(err)]

\* drain loop that takes the newest pending transfer first (pop_back)
RECURSIVE drain_pending_lifo(_, _)
drain_pending_lifo(self, checks) ==
    IF self.pending_transfers = << >> THEN self
    ELSE LET n == Len(self.pending_transfers)
             transfer == self.pending_transfers[n]
             popped == [self EXCEPT !.pending_transfers = SubSeq(@, 1, n - 1)]
             credit == sub_u32(popped.link_credit, 1)
             count == add_u32(popped.delivery_count, 1)
         IN  IF checks /\ (credit.ovf \/ count.ovf)
                THEN [popped EXCEPT !.panicked = TRUE]
             ELSE LET sent == send_transfer(
                                [popped EXCEPT !.link_credit = credit.v,
                                               !.delivery_count = count.v],
                                popped.remote_handle, transfer, popped.link_credit)
                  IN  IF sent.link_credit = 0 THEN sent
                      ELSE drain_pending_lifo(sent, checks)

\* the drain loop of apply_flow
RECURSIVE drain_pending(_, _)
drain_pending(self, checks) ==
    IF self.pending_transfers = << >> THEN self
    ELSE LET transfer == Head(self.pending_transfers)
             popped == [self EXCEPT !.pending_transfers = Tail(@)]
             credit == sub_u32(popped.link_credit, 1)
             count == add_u32(popped.delivery_count, 1)
         IN  IF credit.ovf /\ checks
                THEN [popped EXCEPT !.panicked = TRUE]
             ELSE IF count.ovf /\ checks
                THEN [popped EXCEPT !.link_credit = credit.v, !.panicked = TRUE]
             ELSE LET sent == send_transfer(
                                [popped EXCEPT !.link_credit = credit.v,
                                               !.delivery_count = count.v],
                                popped.remote_handle, transfer, popped.link_credit)
                  IN  IF sent.link_credit = 0 THEN sent
                      ELSE drain_pending(sent, checks)

\* the credit block of apply_flow without the drain of pending_transfers
apply_flow_credit_undrained(self, flow, checks) ==
    IF flow.link_credit = None THEN self
    ELSE
    LET fsum == add_u32(unwrap_or(flow.delivery_count, 0), flow.link_credit[1])
        osum == add_u32(self.delivery_count, self.link_credit)
        delta == sub_u32(fsum.v, osum.v)
        grown == add_u32(self.link_credit, delta.v)
    IN  IF checks /\ (fsum.ovf \/ osum.ovf \/ delta.ovf \/ grown.ovf)
           THEN [self EXCEPT !.panicked = TRUE]
        ELSE [self EXCEPT !.link_credit = grown.v]

\* apply_flow, the `if let Some(credit) = flow.link_credit()` block
apply_flow_credit(self, flow, checks) ==
    IF flow.link_credit = None THEN self
    ELSE
    LET credit == flow.link_credit[1]
        fsum == add_u32(unwrap_or(flow.delivery_count, 0), credit)
        osum == add_u32(self.delivery_count, self.link_credit)
        delta == sub_u32(fsum.v, osum.v)
    IN  IF checks /\ (fsum.ovf \/ osum.ovf \/ delta.ovf)
           THEN [self EXCEPT !.panicked = TRUE]
        ELSE IF delta.v > 0
           THEN LET old_credit == self.link_credit
                    grown == add_u32(self.link_credit, delta.v)
                IN  IF checks /\ grown.ovf
                       THEN [self EXCEPT !.panicked = TRUE]
                    ELSE IF old_credit = 0
                       THEN drain_pending([self EXCEPT !.link_credit = grown.v], checks)
                    ELSE [self EXCEPT !.link_credit = grown.v]
        ELSE LET inner == add_u32(self.link_credit, delta.v)
                 grown == add_u32(self.link_credit, max_u32(0, inner.v))
             IN  IF checks /\ (inner.ovf \/ grown.ovf)
                    THEN [self EXCEPT !.panicked = TRUE]
                 ELSE [self EXCEPT !.link_credit = grown.v]

\* apply_flow: the credit block, then `if flow.echo() { // todo: send flow }`,
\* a branch with no statement in it
apply_flow(self, flow, checks) ==
    LET credited == apply_flow_credit(self, flow, checks)
    IN  IF flow.echo THEN credited ELSE credited

\* send that hands the message over without looking at link_credit
send_without_credit(self, message, checks) ==
    LET credit == sub_u32(self.link_credit, 1)
        count == add_u32(self.delivery_count, 1)
    IN  IF checks /\ (credit.ovf \/ count.ovf)
           THEN [self EXCEPT !.panicked = TRUE]
        ELSE send_transfer(
               [self EXCEPT !.link_credit = credit.v, !.delivery_count = count.v],
               self.remote_handle, message, self.link_credit)

send(self, message, checks) ==
    IF self.link_credit = 0
       THEN [self EXCEPT !.pending_transfers = Append(@, message)]
    ELSE LET credit == sub_u32(self.link_credit, 1)
             count == add_u32(self.delivery_count, 1)
         IN  IF checks /\ credit.ovf
                THEN [self EXCEPT !.panicked = TRUE]
             ELSE IF checks /\ count.ovf
                THEN [self EXCEPT !.link_credit = credit.v, !.panicked = TRUE]
             ELSE send_transfer(
                    [self EXCEPT !.link_credit = credit.v,
                                 !.delivery_count = count.v],
                    self.remote_handle, message, self.link_credit)

\* ---------------------------------------------------------------- actions
Op(name, flow, msg, err) ==
    [op |-> name, flow |-> flow, msg |-> msg, err |-> err, pre |-> SenderLinkInner]

InitSender ==
    /\ remote_handle \in Handles
    /\ delivery_count = 0
    /\ link_credit = 0
    /\ pending_transfers = << >>
    /\ error = None
    /\ session_transfers = << >>
    /\ session_flows = << >>
    /\ promise = [m \in MsgIds |-> << >>]
    /\ nsends = 0
    /\ panicked = FALSE
    /\ last = [op |-> "new", flow |-> NoFlow, msg |-> 0, err |-> None,
               pre |-> [ remote_handle |-> remote_handle, delivery_count |-> 0,
                         link_credit |-> 0, pending_transfers |-> << >>,
                         error |-> None, session_transfers |-> << >>,
                         session_flows |-> << >>,
                         promise |-> [m \in MsgIds |-> << >>],
                         panicked |-> FALSE ]]

Send ==
    /\ ~panicked
    /\ nsends < MaxSends
    /\ nsends' = nsends + 1
    /\ SetSenderLinkInner(send(SenderLinkInner, nsends + 1, overflow_checks))
    /\ last' = Op("send", NoFlow, nsends + 1, None)
    /\ UNCHANGED << overflow_checks, receiver_vars, conn_vars >>

ApplyFlow ==
    /\ ~panicked
    /\ \E flow \in Flows :
          /\ SetSenderLinkInner(apply_flow(SenderLinkInner, flow, overflow_checks))
          /\ last' = Op("apply_flow", flow, 0, None)
    /\ UNCHANGED << overflow_checks, nsends, receiver_vars, conn_vars >>

Detached ==
    /\ ~panicked
    /\ \E err \in Errors :
          /\ SetSenderLinkInner(detached(SenderLinkInner, err))
          /\ last' = Op("detached", NoFlow, 0, Some(err))
    /\ UNCHANGED << overflow_checks, nsends, receiver_vars, conn_vars >>

SetError ==
    /\ ~panicked
    /\ \E err \in Errors :
          /\ SetSenderLinkInner(set_error(SenderLinkInner, err))
          /\ last' = Op("set_error", NoFlow, 0, Some(err))
    /\ UNCHANGED << overflow_checks, nsends, receiver_vars, conn_vars >>

\* ---------------------------------------------------------------- receiver link
ReceiverLinkInner ==
    [ handle |-> rcv_handle,
      credit |-> rcv_credit,
      delivery_count |-> rcv_delivery_count,
      queue |-> queue,
      closed |-> closed,
      reader_task |-> reader_task,
      rcv_flows |-> rcv_flows,
      detach_requests |-> detach_requests,
      close_replies |-> close_replies,
      panicked |-> rcv_panicked ]

SetReceiverLinkInner(self) ==
    /\ rcv_handle' = self.handle
    /\ rcv_credit' = self.credit
    /\ rcv_delivery_count' = self.delivery_count
    /\ queue' = self.queue
    /\ closed' = self.closed
    /\ reader_task' = self.reader_task
    /\ rcv_flows' = self.rcv_flows
    /\ detach_requests' = self.detach_requests
    /\ close_replies' = self.close_replies
    /\ rcv_panicked' = self.panicked

\* reader_task.register(): the polling task is stored
register(self) == [self EXCEPT !.reader_task = "registered"]

\* reader_task.notify(): a stored task is taken and woken
notify(self) ==
    IF self.reader_task = "registered"
       THEN [self EXCEPT !.reader_task = "notified"]
       ELSE self

\* close(error): a closed link answers Ok at once, any other link asks the
\* session for a Detach with closed = true and hands it the reply channel
close(self, err) ==
    IF self.closed
       THEN [self EXCEPT !.close_replies = Append(@, "Ok")]
       ELSE [self EXCEPT !.detach_requests =
                Append(@, [handle |-> self.handle, closed |-> TRUE, error |-> err])]

set_link_credit(self, n, checks) ==
    LET sum == add_u32(self.credit, n)
    IN  IF checks /\ sum.ovf
           THEN [self EXCEPT !.panicked = TRUE]
        ELSE [self EXCEPT
                !.credit = sum.v,
                !.rcv_flows = Append(@, [handle |-> self.handle,
                                         delivery_count |-> self.delivery_count,
                                         link_credit |-> n])]

\* handle_transfer that admits without looking at credit
handle_transfer_without_credit(self, transfer, checks) ==
    LET cr == sub_u32(self.credit, 1)
        count == add_u32(self.delivery_count, 1)
    IN  IF checks /\ (cr.ovf \/ count.ovf)
           THEN [self EXCEPT !.panicked = TRUE]
        ELSE LET pushed == [self EXCEPT !.credit = cr.v,
                                        !.delivery_count = count.v,
                                        !.queue = Append(@, transfer)]
             IN  IF Len(pushed.queue) = 1 THEN notify(pushed) ELSE pushed

handle_transfer(self, transfer, checks) ==
    IF self.credit = 0
       THEN close(self, Some(TransferLimitExceeded))
    ELSE LET cr == sub_u32(self.credit, 1)
             count == add_u32(self.delivery_count, 1)
         IN  IF checks /\ cr.ovf
                THEN [self EXCEPT !.panicked = TRUE]
             ELSE IF checks /\ count.ovf
                THEN [self EXCEPT !.credit = cr.v, !.panicked = TRUE]
             ELSE LET pushed == [self EXCEPT !.credit = cr.v,
                                             !.delivery_count = count.v,
                                             !.queue = Append(@, transfer)]
                  IN  IF Len(pushed.queue) = 1 THEN notify(pushed) ELSE pushed

\* poll that takes the newest queued Transfer first (pop_back)
poll_lifo(self) ==
    IF self.queue # << >>
       THEN [self |-> [self EXCEPT !.queue = SubSeq(@, 1, Len(@) - 1)],
             result |-> << "Ready", Some(self.queue[Len(self.queue)]) >>]
    ELSE IF self.closed
       THEN [self |-> self, result |-> << "Ready", None >>]
    ELSE [self |-> register(self), result |-> << "NotReady" >>]

\* Stream::poll: the new link state and the value returned
poll(self) ==
    IF self.queue # << >>
       THEN [self |-> [self EXCEPT !.queue = Tail(@)],
             result |-> << "Ready", Some(Head(self.queue)) >>]
    ELSE IF self.closed
       THEN [self |-> self, result |-> << "Ready", None >>]
    ELSE [self |-> register(self), result |-> << "NotReady" >>]

RcvOp(name, arg, result) ==
    [op |-> name, arg |-> arg, result |-> result, pre |-> ReceiverLinkInner,
     pre_granted |-> granted]

\* new(session, handle, attach): delivery_count starts at the attach's
\* initial_delivery_count, or 0
InitReceiver(initial_delivery_counts) ==
    /\ rcv_handle \in RcvHandles
    /\ rcv_credit = 0
    /\ rcv_delivery_count \in initial_delivery_counts
    /\ queue = << >>
    /\ closed = FALSE
    /\ reader_task = "empty"
    /\ rcv_flows = << >>
    /\ detach_requests = << >>
    /\ close_replies = << >>
    /\ granted = 0
    /\ admitted = << >>
    /\ ngrants = 0
    /\ narrived = 0
    /\ ncloses = 0
    /\ rcv_panicked = FALSE
    /\ peer_seen = 0
    /\ peer_sent = 0
    /\ rcv_last = [op |-> "new", arg |-> None, result |-> << >>,
                   pre |-> [ handle |-> rcv_handle, credit |-> 0,
                             delivery_count |-> rcv_delivery_count,
                             queue |-> << >>, closed |-> FALSE,
                             reader_task |-> "empty", rcv_flows |-> << >>,
                             detach_requests |-> << >>, close_replies |-> << >>,
                             panicked |-> FALSE ],
                   pre_granted |-> 0]

SetLinkCredit ==
    /\ ~rcv_panicked
    /\ ngrants < MaxGrants
    /\ \E n \in U32 :
          /\ SetReceiverLinkInner(set_link_credit(ReceiverLinkInner, n, overflow_checks))
          /\ granted' = granted + n
          /\ rcv_last' = RcvOp("set_link_credit", Some(n), << >>)
    /\ ngrants' = ngrants + 1
    /\ UNCHANGED << overflow_checks, sender_vars, conn_vars, admitted, narrived, ncloses,
                    peer_seen, peer_sent >>

HandleTransfer ==
    /\ ~rcv_panicked
    /\ narrived < MaxTransfers
    /\ SetReceiverLinkInner(
            handle_transfer(ReceiverLinkInner, narrived + 1, overflow_checks))
    /\ narrived' = narrived + 1
    /\ admitted' = IF Len(queue') > Len(queue)
                      THEN Append(admitted, narrived + 1) ELSE admitted
    /\ rcv_last' = RcvOp("handle_transfer", Some(narrived + 1), << >>)
    /\ UNCHANGED << overflow_checks, sender_vars, conn_vars, granted, ngrants, ncloses,
                    peer_seen, peer_sent >>

Poll ==
    /\ ~rcv_panicked
    /\ LET r == poll(ReceiverLinkInner) IN
          /\ SetReceiverLinkInner(r.self)
          /\ rcv_last' = RcvOp("poll", None, r.result)
    /\ UNCHANGED << overflow_checks, sender_vars, conn_vars, granted, admitted, ngrants,
                    narrived, ncloses, peer_seen, peer_sent >>

Close ==
    /\ ~rcv_panicked
    /\ ncloses < MaxCloses
    /\ \E err \in CloseErrors :
          /\ SetReceiverLinkInner(close(ReceiverLinkInner, err))
          /\ rcv_last' = RcvOp("close", err, << >>)
    /\ ncloses' = ncloses + 1
    /\ UNCHANGED << overflow_checks, sender_vars, conn_vars, granted, admitted, ngrants,
                    narrived, peer_seen, peer_sent >>

\* ------------------------------------------------------------- the peer
\* The sending peer of the receiver link.  The Flows of rcv_flows reach it in
\* the order they were written; from the latest one it has seen it takes its
\* credit: delivery-count + link-credit of the Flow, less the Transfers it has
\* sent.  Transfers reach the link in the order they were sent.
PeerCredit ==
    IF peer_seen = 0 THEN 0
    ELSE rcv_flows[peer_seen].delivery_count + rcv_flows[peer_seen].link_credit
            - peer_sent

\* the next Flow in flight reaches the peer
PeerReceiveFlow ==
    /\ peer_seen < Len(rcv_flows)
    /\ peer_seen' = peer_seen + 1
    /\ UNCHANGED << overflow_checks, sender_vars, conn_vars, rcv_handle, rcv_credit,
                    rcv_delivery_count, queue, closed, reader_task, rcv_flows,
                    detach_requests, close_replies, granted, admitted, ngrants,
                    narrived, ncloses, rcv_panicked, rcv_last, peer_sent >>

\* the peer sends a Transfer within its credit
PeerSendTransfer ==
    /\ PeerCredit > 0
    /\ peer_sent < MaxTransfers
    /\ peer_sent' = peer_sent + 1
    /\ UNCHANGED << overflow_checks, sender_vars, conn_vars, rcv_handle, rcv_credit,
                    rcv_delivery_count, queue, closed, reader_task, rcv_flows,
                    detach_requests, close_replies, granted, admitted, ngrants,
                    narrived, ncloses, rcv_panicked, rcv_last, peer_seen >>

\* the next Transfer in flight reaches the link
PeerTransferArrives ==
    /\ narrived < peer_sent
    /\ HandleTransfer

NextPeer == SetLinkCredit \/ PeerReceiveFlow \/ PeerSendTransfer \/ PeerTransferArrives

\* ---------------------------------------------------------------- heartbeat
\* Instants and Durations are counted in ticks of the clock behind
\* LowResTimeService and tokio_timer
Durations == 1 .. MaxInterval
OptDurations == {None} \cup {Some(d) : d \in Durations}

\* the heartbeat as one value
Heartbeat ==
    [ expire_local |-> expire_local,
      expire_remote |-> expire_remote,
      local |-> local,
      remote |-> remote,
      delay |-> delay ]

SetHeartbeat(self) ==
    /\ expire_local' = self.expire_local
    /\ expire_remote' = self.expire_remote
    /\ local' = self.local
    /\ remote' = self.remote
    /\ delay' = self.delay

\* Delay::new(deadline): no task is registered before the first poll
Delay_new(deadline) == [deadline |-> deadline, registered |-> FALSE]

\* Delay::poll at time now: Ready once the deadline is reached, else the
\* polling task is registered to be woken at the deadline
Delay_is_ready(d, now) == now >= d.deadline
Delay_poll(d, now) == [d EXCEPT !.registered = ~Delay_is_ready(d, now)]

\* Delay::reset(deadline)
Delay_reset(d, deadline) == [d EXCEPT !.deadline = deadline]

hb_new(l, r, now) ==
    [ expire_local |-> now,
      expire_remote |-> now,
      local |-> l,
      remote |-> r,
      delay |-> IF r # None THEN Delay_new(now + Min(l, r[1]))
                ELSE Delay_new(now + l) ]

\* update_local that forgets the inbound frame
update_local_ignored(self, update, now) == self

update_local(self, update, now) ==
    IF update THEN [self EXCEPT !.expire_local = now] ELSE self

update_remote(self, update, now) ==
    IF update /\ self.remote # None
       THEN [self EXCEPT !.expire_remote = now]
       ELSE self

\* next_expire that looks at the local deadline only
next_expire_local(self) == self.expire_local + self.local

next_expire(self) ==
    IF self.remote # None
       THEN Min(self.expire_local + self.local, self.expire_remote + self.remote[1])
       ELSE self.expire_local + self.local

\* Heartbeat::poll with a working timer: the new heartbeat and the action
hb_poll(self, now) ==
    IF Delay_is_ready(self.delay, now)
       THEN LET polled == [self EXCEPT !.delay = Delay_poll(@, now)]
                dl == self.delay.deadline
            IN  IF dl >= self.expire_local + self.local
                   THEN [self |-> polled, result |-> "Close"]
                ELSE LET act == IF self.remote # None
                                     /\ dl >= self.expire_remote + self.remote[1]
                                   THEN "Heartbeat" ELSE "None"
                         rearmed == Delay_poll(
                                      Delay_reset(polled.delay, next_expire(self)),
                                      now)
                     IN  [self |-> [polled EXCEPT !.delay = rearmed],
                          result |-> act]
    ELSE [self |-> [self EXCEPT !.delay = Delay_poll(@, now)], result |-> "None"]

HbOp(name, update, result) ==
    [op |-> name, update |-> update, result |-> result, at |-> time,
     pre |-> Heartbeat]

InitHeartbeat(locals, remotes) ==
    /\ time = 0
    /\ \E l \in locals, r \in remotes :
          LET self == hb_new(l, r, 0) IN
          /\ expire_local = self.expire_local
          /\ expire_remote = self.expire_remote
          /\ local = self.local
          /\ remote = self.remote
          /\ delay = self.delay
          /\ hb_last = [op |-> "new", update |-> FALSE, result |-> "None",
                        at |-> 0, pre |-> self]
    /\ hb_state = "running"
    /\ last_inbound = 0

\* the clock advances
HbTick ==
    /\ hb_state = "running"
    /\ time < MaxTime
    /\ time' = time + 1
    /\ UNCHANGED << link_vars, hs_vars, expire_local, expire_remote, local, remote, delay,
                    hb_state, last_inbound, hb_last >>

\* the connection reports whether it has read a frame
HbUpdateLocal ==
    /\ hb_state = "running"
    /\ \E update \in BOOLEAN :
          /\ SetHeartbeat(update_local(Heartbeat, update, time))
          /\ last_inbound' = IF update THEN time ELSE last_inbound
          /\ hb_last' = HbOp("update_local", update, "None")
    /\ UNCHANGED << link_vars, hs_vars, time, hb_state >>

\* the connection reports whether it has written a frame
HbUpdateRemote ==
    /\ hb_state = "running"
    /\ \E update \in BOOLEAN :
          /\ SetHeartbeat(update_remote(Heartbeat, update, time))
          /\ hb_last' = HbOp("update_remote", update, "None")
    /\ UNCHANGED << link_vars, hs_vars, time, hb_state, last_inbound >>

\* the connection polls the heartbeat; Close ends the connection
HbPoll ==
    /\ hb_state = "running"
    /\ LET r == hb_poll(Heartbeat, time) IN
          /\ SetHeartbeat(r.self)
          /\ hb_state' = IF r.result = "Close" THEN "closed" ELSE "running"
          /\ hb_last' = HbOp("poll", FALSE, r.result)
    /\ UNCHANGED << link_vars, hs_vars, time, last_inbound >>

\* the timer fails under the poll: Err(AmqpTransportError::Timeout)
HbPollTimerError ==
    /\ hb_state = "running"
    /\ hb_state' = "failed"
    /\ hb_last' = HbOp("poll", FALSE, "Timeout")
    /\ UNCHANGED << link_vars, hs_vars, time, expire_local, expire_remote, local, remote,
                    delay, last_inbound >>

NextHb == HbTick \/ HbUpdateLocal \/ HbUpdateRemote \/ HbPoll \/ HbPollTimerError

\* ---------------------------------------------------------------- server handshake
ProtocolIds == {"Amqp", "AmqpSasl", "AmqpTls"}
\* what reading one item from the stream yields: an item, the end of the
\* stream, or an error of the codec or the io
ReadError == << "Err", None >>
Read(item) == << "Ok", item >>
ProtocolReads == {Read(Some(p)) : p \in ProtocolIds} \cup {Read(None), ReadError}
\* Open frames of the peer, and frames that are not an Open
Opens == [kind : {"Open"}, container_id : {"c1", "c2"}, idle_time_out : {None, Some(1)}]
OtherFrames == {[kind |-> "Begin"], [kind |-> "Close"]}
\* Configurations a Server is created with
Configurations == [container_id : {"s1", "s2"}, idle_time_out : {None, Some(1)}]
FrameReads == {Read(Some(f)) : f \in Opens \cup OtherFrames} \cup {Read(None), ReadError}

Ok(v) == << "Ok", v >>
Err(e) == << "Err", e >>
HandshakeError(name) == [error |-> name]
Unexpected(exp, got) == [error |-> "ProtocolIdError::Unexpected", exp |-> exp, got |-> got]

\* what ServerService::call makes of the first header
first_protocol(protocol) ==
    IF protocol = ReadError THEN Err(HandshakeError("Io"))
    ELSE IF protocol = Read(Some("Amqp")) THEN Ok("Amqp")
    ELSE IF protocol = Read(Some("AmqpSasl")) THEN Ok("AmqpSasl")
    ELSE IF protocol = Read(Some("AmqpTls")) THEN Err(Unexpected("Amqp", "AmqpTls"))
    ELSE Err(HandshakeError("Disconnected"))

\* header check that lets every header pass
expect_amqp_any(protocol) ==
    IF protocol = ReadError THEN Err(HandshakeError("Io"))
    ELSE IF protocol[2] # None THEN Ok("Amqp")
    ELSE Err(HandshakeError("ProtocolIdError::Disconnected"))

\* what handshake makes of the header that follows SASL
expect_amqp(protocol) ==
    IF protocol = ReadError THEN Err(HandshakeError("Io"))
    ELSE IF protocol[2] # None
       THEN IF protocol[2][1] = "Amqp" THEN Ok("Amqp")
            ELSE Err(Unexpected("Amqp", protocol[2][1]))
    ELSE Err(HandshakeError("ProtocolIdError::Disconnected"))

\* frame check that takes every frame for the peer's Open
expect_open_any(frame) ==
    IF frame = ReadError THEN Err(HandshakeError("Io"))
    ELSE IF frame[2] # None THEN Ok(frame[2][1])
    ELSE Err(HandshakeError("Disconnected"))

\* what open_connection makes of the first frame
expect_open(frame) ==
    IF frame = ReadError THEN Err(HandshakeError("Io"))
    ELSE IF frame[2] # None
       THEN IF frame[2][1].kind = "Open" THEN Ok(frame[2][1])
            ELSE Err([error |-> "Unexpected", frame |-> frame[2][1]])
    ELSE Err(HandshakeError("Disconnected"))

Rcv(kind, item) == << "rcv", kind, item >>
Snd(kind, item) == << "snd", kind, item >>
New(kind, item) == << "new", kind, item >>
Call(kind, item) == << "call", kind, item >>

\* the future fails: .map_err(|_| ()) and no Dispatcher
HsFail(e) ==
    /\ hs_pc' = "failed"
    /\ hs_error' = Some(e)
    /\ connection' = None

InitHandshake(configurations) ==
    /\ cfg \in configurations
    /\ hs_pc = "read_protocol"
    /\ hs_sasl = FALSE
    /\ hs_log = << >>
    /\ hs_open = None
    /\ hs_error = None
    /\ connection = None
    /\ dispatcher = FALSE

\* Framed::new(req, ProtocolIdCodec).into_future() and the match on it
CallReadProtocol ==
    /\ hs_pc = "read_protocol"
    /\ \E protocol \in ProtocolReads :
          LET r == first_protocol(protocol) IN
          /\ hs_log' = Append(hs_log, Rcv("header", protocol))
          /\ IF r[1] = "Ok"
                THEN /\ hs_pc' = "send_protocol"
                     /\ hs_sasl' = (r[2] = "AmqpSasl")
                     /\ UNCHANGED << hs_error, connection >>
                ELSE HsFail(r[2]) /\ UNCHANGED hs_sasl
    /\ UNCHANGED << link_vars, hb_vars, cfg, hs_open, dispatcher >>

\* framed.send(ProtocolId::Amqp) or framed.send(ProtocolId::AmqpSasl): the
\* header received is echoed
CallSendProtocol ==
    /\ hs_pc = "send_protocol"
    /\ \E sent \in BOOLEAN :
          IF sent
             THEN /\ hs_log' = Append(hs_log,
                        Snd("header", IF hs_sasl THEN "AmqpSasl" ELSE "Amqp"))
                  /\ hs_pc' = IF hs_sasl THEN "sasl" ELSE "read_open"
                  /\ UNCHANGED << hs_error, connection >>
          ELSE HsFail(HandshakeError("Io")) /\ UNCHANGED hs_log
    /\ UNCHANGED << link_vars, hb_vars, cfg, hs_sasl, hs_open, dispatcher >>

\* Sasl::new(..) resolves: with the service state, or with an error
CallSasl ==
    /\ hs_pc = "sasl"
    /\ \E authenticated \in BOOLEAN :
          IF authenticated
             THEN /\ hs_pc' = "handshake"
                  /\ UNCHANGED << hs_error, connection >>
          ELSE HsFail(HandshakeError("Sasl"))
    /\ UNCHANGED << link_vars, hb_vars, cfg, hs_sasl, hs_log, hs_open, dispatcher >>

\* handshake: framed.into_future() and the check of the header
HandshakeReadProtocol ==
    /\ hs_pc = "handshake"
    /\ \E protocol \in ProtocolReads :
          LET r == expect_amqp(protocol) IN
          /\ hs_log' = Append(hs_log, Rcv("header", protocol))
          /\ IF r[1] = "Ok"
                THEN /\ hs_pc' = "handshake_send"
                     /\ UNCHANGED << hs_error, connection >>
                ELSE HsFail(r[2])
    /\ UNCHANGED << link_vars, hb_vars, cfg, hs_sasl, hs_open, dispatcher >>

\* handshake: framed.send(ProtocolId::Amqp)
HandshakeSendProtocol ==
    /\ hs_pc = "handshake_send"
    /\ \E sent \in BOOLEAN :
          IF sent
             THEN /\ hs_log' = Append(hs_log, Snd("header", "Amqp"))
                  /\ hs_pc' = "read_open"
                  /\ UNCHANGED << hs_error, connection >>
          ELSE HsFail(HandshakeError("Io")) /\ UNCHANGED hs_log
    /\ UNCHANGED << link_vars, hb_vars, cfg, hs_sasl, hs_open, dispatcher >>

\* open_connection: framed.into_future() and the match on the frame
OpenConnectionRead ==
    /\ hs_pc = "read_open"
    /\ \E frame \in FrameReads :
          LET r == expect_open(frame) IN
          /\ hs_log' = Append(hs_log, Rcv("frame", frame))
          /\ IF r[1] = "Ok"
                THEN /\ hs_pc' = "send_open"
                     /\ hs_open' = Some(r[2])
                     /\ UNCHANGED << hs_error, connection >>
                ELSE HsFail(r[2]) /\ UNCHANGED hs_open
    /\ UNCHANGED << link_vars, hb_vars, cfg, hs_sasl, dispatcher >>

\* open_connection: framed.send(AmqpFrame::new(0, local.into())) and then
\* Connection::new(framed, cfg, (&open).into(), None); on the SASL branch the
\* future of call goes on to Dispatcher::new at once
OpenConnectionSend ==
    /\ hs_pc = "send_open"
    /\ \E sent \in BOOLEAN :
          IF sent
             THEN /\ connection' = hs_open
                  /\ hs_log' = hs_log
                        \o << Snd("frame", [kind |-> "Open", channel |-> 0, local |-> cfg]),
                              New("Connection", hs_open[1]) >>
                        \o (IF hs_sasl THEN << New("Dispatcher", hs_open[1]) >>
                                       ELSE << >>)
                  /\ dispatcher' = hs_sasl
                  /\ hs_pc' = IF hs_sasl THEN "done" ELSE "factory"
                  /\ UNCHANGED hs_error
          ELSE HsFail(HandshakeError("Io")) /\ UNCHANGED << hs_log, dispatcher >>
    /\ UNCHANGED << link_vars, hb_vars, cfg, hs_sasl, hs_open >>

\* factory.call(None) resolves: with the service state, and Dispatcher::new
\* follows, or with an error, which becomes HandshakeError::Service
CallFactory ==
    /\ hs_pc = "factory"
    /\ \E created \in BOOLEAN :
          IF created
             THEN /\ dispatcher' = TRUE
                  /\ hs_log' = hs_log \o << Call("factory", None),
                                            New("Dispatcher", connection[1]) >>
                  /\ hs_pc' = "done"
                  /\ UNCHANGED << hs_error, connection >>
          ELSE /\ HsFail(HandshakeError("Service"))
               /\ hs_log' = Append(hs_log, Call("factory", None))
               /\ UNCHANGED dispatcher
    /\ UNCHANGED << link_vars, hb_vars, cfg, hs_sasl, hs_open >>

NextHs ==
    \/ CallReadProtocol \/ CallSendProtocol \/ CallSasl
    \/ HandshakeReadProtocol \/ HandshakeSendProtocol
    \/ OpenConnectionRead \/ OpenConnectionSend \/ CallFactory

\* ------------------------------------------------------------- Variant
\* src/types/variant.rs.  A Variant is its kind (the enum's variant) and its
\* content: the bytes of a Binary, the text of a String or Symbol as code
\* points, the value of a number or Boolean as a one-element sequence,
\* nothing for Null.
Octets == {104, 119}

Contents == UNION { [1 .. n -> Octets] : n \in 0 .. MaxContent }

\* the integer variants, and the values of each: the narrow types scaled to
\* one bit, u32 to 0 .. U32Max, i32 to half of that on either side, and the
\* 64-bit types to the scaled range of i64 and as many values from 0 up
IntegerKinds == {"Ubyte", "Ushort", "Uint", "Ulong", "Byte", "Short", "Int", "Long"}

I64Min == - I64Max - 1
U64Max == 2 * I64Max + 1
I32Max == U32Max \div 2
I32Min == - I32Max - 1

ScalarKinds == {"Boolean"} \cup IntegerKinds

ScalarValues(kind) ==
    CASE kind \in {"Boolean", "Ubyte", "Ushort"} -> 0 .. 1
      [] kind \in {"Byte", "Short"} -> -1 .. 0
      [] kind = "Uint" -> 0 .. U32Max
      [] kind = "Int" -> I32Min .. I32Max
      [] kind = "Ulong" -> 0 .. U64Max
      [] kind = "Long" -> I64Min .. I64Max

ContentKinds == {"Binary", "String", "Symbol", "StaticSymbol"}

Variants ==
    {[kind |-> "Null", content |-> << >>]}
        \cup UNION { {[kind |-> k, content |-> << v >>] : v \in ScalarValues(k)} :
                        k \in ScalarKinds }
        \cup [kind : ContentKinds, content : Contents]

\* == on the field of two Variants of one kind: on Bytes, Str and Symbol the
\* lengths and then each element, on a number or Boolean the value
content_eq(kind, x, y) ==
    IF kind = "Null" THEN TRUE
    ELSE IF kind \in ScalarKinds THEN x[1] = y[1]
    ELSE Len(x) = Len(y) /\ \A i \in 1 .. Len(x) : x[i] = y[i]

\* == that looks at the content alone, as the comparison of a Variant with a
\* str does for String and Symbol
variant_eq_content(a, b) ==
    Len(a.content) = Len(b.content)
        /\ \A i \in 1 .. Len(a.content) : a.content[i] = b.content[i]

\* #[derive(PartialEq)] on Variant: the same variant of the enum, then == on
\* its field
variant_eq(a, b) ==
    IF a.kind # b.kind THEN FALSE ELSE content_eq(a.kind, a.content, b.content)

\* `v as i64`: a value of a narrower type, or a signed one, is kept; a u64
\* above i64::MAX is reinterpreted in two's complement
as_i64(v) == IF v > I64Max THEN v - (U64Max + 1) ELSE v

\* Variant::as_long
as_long(self) ==
    IF self.kind \in IntegerKinds THEN Some(as_i64(self.content[1])) ELSE None

NotCompared == [done |-> FALSE, ab |-> FALSE, ba |-> FALSE, aa |-> FALSE, bb |-> FALSE]

InitVariant(variants) ==
    /\ variant_a \in variants
    /\ variant_b \in variants
    /\ variant_cmp = NotCompared
    /\ variant_long = [done |-> FALSE, result |-> None]

\* a == b, b == a, a == a and b == b
VariantEq ==
    /\ ~variant_cmp.done
    /\ variant_cmp' = [done |-> TRUE,
                       ab |-> variant_eq(variant_a, variant_b),
                       ba |-> variant_eq(variant_b, variant_a),
                       aa |-> variant_eq(variant_a, variant_a),
                       bb |-> variant_eq(variant_b, variant_b)]
    /\ UNCHANGED << variant_a, variant_b, variant_long, overflow_checks, sender_vars,
                    receiver_vars, hb_vars, hs_vars >>

\* a.as_long()
VariantAsLong ==
    /\ ~variant_long.done
    /\ variant_long' = [done |-> TRUE, result |-> as_long(variant_a)]
    /\ UNCHANGED << variant_a, variant_b, variant_cmp, overflow_checks, sender_vars,
                    receiver_vars, hb_vars, hs_vars >>

NextVariant == VariantEq \/ VariantAsLong

NextRcv == SetLinkCredit \/ HandleTransfer \/ Poll \/ Close

\* the links of a connection whose heartbeat has not started
InitLinks(initial_delivery_counts) ==
    /\ overflow_checks \in BOOLEAN
    /\ InitSender
    /\ InitReceiver(initial_delivery_counts)

Init ==
    /\ InitLinks({0})
    /\ InitHeartbeat({1}, {None})
    /\ InitHandshake({[container_id |-> "s1", idle_time_out |-> None]})
    /\ InitVariant({[kind |-> "Null", content |-> << >>]})

InitRcv ==
    /\ InitLinks(InitialDeliveryCounts)
    /\ InitHeartbeat({1}, {None})
    /\ InitHandshake({[container_id |-> "s1", idle_time_out |-> None]})
    /\ InitVariant({[kind |-> "Null", content |-> << >>]})

\* the handshake of one accepted stream
InitHs ==
    /\ overflow_checks = FALSE
    /\ InitSender
    /\ InitReceiver({0})
    /\ InitHeartbeat({1}, {None})
    /\ InitHandshake(Configurations)
    /\ InitVariant({[kind |-> "Null", content |-> << >>]})

SpecHs == InitHs /\ [][NextHs]_vars

\* a connection's heartbeat; its links stay as constructed
InitHb ==
    /\ overflow_checks = FALSE
    /\ InitSender
    /\ InitReceiver({0})
    /\ InitHeartbeat(Durations, OptDurations)
    /\ InitHandshake({[container_id |-> "s1", idle_time_out |-> None]})
    /\ InitVariant({[kind |-> "Null", content |-> << >>]})

SpecHb == InitHb /\ [][NextHb]_vars

\* the clock keeps running and the connection keeps polling its heartbeat
SpecHbPolled ==
    InitHb /\ [][NextHb]_vars /\ WF_vars(HbTick) /\ WF_vars(HbPoll)

\* two Variants and their comparison; links and connection stay as constructed
InitVariants ==
    /\ overflow_checks = FALSE
    /\ InitSender
    /\ InitReceiver({0})
    /\ InitHeartbeat({1}, {None})
    /\ InitHandshake({[container_id |-> "s1", idle_time_out |-> None]})
    /\ InitVariant(Variants)

SpecVariant == InitVariants /\ [][NextVariant]_vars

\* the receiver link of a new link (initial-delivery-count 0) and its peer
InitPeer ==
    /\ InitLinks({0})
    /\ InitHeartbeat({1}, {None})
    /\ InitHandshake({[container_id |-> "s1", idle_time_out |-> None]})
    /\ InitVariant({[kind |-> "Null", content |-> << >>]})

SpecPeer == InitPeer /\ [][NextPeer]_vars

SpecRcv == InitRcv /\ [][NextRcv]_vars

\* the task that reads the stream polls it again whenever a poll can still
\* change something
SpecRcvPolled == InitRcv /\ [][NextRcv]_vars /\ WF_vars(Poll)

\* The session resolves a promise it was handed with send_transfer: with the
\* outcome of a Disposition, or with an error when the link is detached or the
\* session or connection ends.
SessionSettle ==
    /\ ~panicked
    /\ \E i \in 1 .. Len(session_transfers), res \in Resolutions :
          LET m == session_transfers[i].message IN
          /\ promise[m] = << >>
          /\ promise' = [promise EXCEPT ![m] = Append(@, res)]
          /\ last' = Op("settle", NoFlow, m, None)
    /\ UNCHANGED << overflow_checks, remote_handle, delivery_count, link_credit,
                    pending_transfers, error, session_transfers, session_flows,
                    nsends, panicked,
                    receiver_vars, conn_vars >>

Next == Send \/ ApplyFlow \/ Detached \/ SetError

Spec == Init /\ [][Next]_vars

\* the sender link together with the session that resolves its promises
NextPromise == Next \/ SessionSettle

\* A link that is still live is eventually detached (by the peer's Detach or
\* by the end of its session or connection), and the session eventually
\* resolves what it was handed.  Nothing else is promised by the peer.
TearDown == error = None /\ (Detached \/ SetError)
SpecPromise ==
    Init /\ [][NextPromise]_vars /\ WF_vars(TearDown) /\ WF_vars(SessionSettle)

\* ---------------------------------------------------------------- claims
\* what the last operation handed to the session, and what the Flow of the
\* last apply_flow meant in exact (unbounded) integers
EmittedByLast ==
    SubSeq(session_transfers, Len(last.pre.session_transfers) + 1,
           Len(session_transfers))
MessagesOf(transfers) == [i \in 1 .. Len(transfers) |-> transfers[i].message]
FlowCarriesCredit == last.op = "apply_flow" /\ last.flow.link_credit # None
FlowSum == unwrap_or(last.flow.delivery_count, 0) + unwrap_or(last.flow.link_credit, 0)
EffectiveDelta == FlowSum - (last.pre.delivery_count + last.pre.link_credit)

\* C1: a Transfer is handed to the session only while link_credit >= 1, by
\* send and by the drain loop alike; a send with link_credit = 0 hands over
\* nothing and appends the message to the tail of pending_transfers; a send
\* that hands over consumes one credit.
C1_EmitOnlyWithCredit ==
    /\ \A i \in 1 .. Len(session_transfers) : session_transfers[i].credit >= 1
    /\ (last.op = "send" /\ last.pre.link_credit = 0) =>
          /\ session_transfers = last.pre.session_transfers
          /\ pending_transfers = Append(last.pre.pending_transfers, last.msg)
    /\ (last.op = "send" /\ EmittedByLast # << >>) =>
          /\ last.pre.link_credit >= 1
          /\ link_credit = last.pre.link_credit - 1

\* a Flow drained part of the queue: it handed a Transfer over and a message
\* sent without credit is still waiting
C1_Witness ==
    /\ last.op = "apply_flow"
    /\ EmittedByLast # << >>
    /\ pending_transfers # << >>

\* C2: Transfers are handed to the session in send-call order: never message
\* j before message i when send(i) came first, and, as long as only send and
\* Flows have acted on the link, the Transfers are a prefix of the sends.
C2_SendOrder ==
    /\ \A i, j \in 1 .. Len(session_transfers) :
          i < j => session_transfers[i].message < session_transfers[j].message
    /\ error = None =>
          \A i \in 1 .. Len(session_transfers) : session_transfers[i].message = i

\* two messages waited without credit and one Flow released both
C2_Witness ==
    /\ last.op = "apply_flow"
    /\ Len(last.pre.pending_transfers) >= 2
    /\ Len(EmittedByLast) >= 2

\* C3: a Flow with effective delta d > 0, on a link with credit c and p
\* pending transfers, hands over exactly min(p, c + d) transfers from the
\* front of the queue in order, and leaves link_credit = c + d - min(p, c + d)
\* and delivery_count grown by min(p, c + d).  Stated for the Flows whose
\* resulting credit c + d is a u32, the only ones a u32 link_credit can meet.
C3_PositiveDelta ==
    (FlowCarriesCredit /\ EffectiveDelta > 0
        /\ last.pre.link_credit + EffectiveDelta <= U32Max) =>
        LET c == last.pre.link_credit
            p == Len(last.pre.pending_transfers)
            n == Min(p, c + EffectiveDelta)
        IN  /\ MessagesOf(EmittedByLast) = SubSeq(last.pre.pending_transfers, 1, n)
            /\ pending_transfers = SubSeq(last.pre.pending_transfers, n + 1, p)
            /\ link_credit = c + EffectiveDelta - n
            /\ delivery_count = last.pre.delivery_count + n

\* C4: after apply_flow has processed a Flow that carries link-credit,
\* delivery_count + link_credit = flow.delivery_count + flow.link_credit.
\* Both sums are taken as the link takes them, as u32 values, and a Flow on
\* which apply_flow panicked does not count as processed: the reading that
\* asks least of the code.
C4_SumFollowsFlow ==
    (FlowCarriesCredit /\ ~panicked) =>
        add_u32(delivery_count, link_credit).v
            = add_u32(unwrap_or(last.flow.delivery_count, 0),
                      last.flow.link_credit[1]).v

\* C5: a Flow with effective delta <= 0 leaves link_credit no larger than
\* before and not below zero, and hands no Transfer to the session.
C5_NonPositiveDelta ==
    (FlowCarriesCredit /\ EffectiveDelta <= 0) =>
        /\ link_credit <= last.pre.link_credit
        /\ link_credit >= 0
        /\ EmittedByLast = << >>

\* C6: the Transfers admitted into the incoming queue never outnumber the
\* credit granted through set_link_credit, and the local credit never exceeds
\* what is left of the grant (it does not underflow).
C6_AdmittedWithinGrant ==
    /\ Len(admitted) <= granted
    /\ rcv_credit <= granted - Len(admitted)

\* the whole grant was used up and a further Transfer was turned away
C6_Witness ==
    /\ granted >= 2
    /\ Len(admitted) = granted
    /\ rcv_last.op = "handle_transfer"
    /\ rcv_last.pre.credit = 0
    /\ queue = rcv_last.pre.queue

\* C7: handle_transfer on a link with credit = 0 does not enqueue the
\* Transfer and requests a Detach with amqp:link:transfer-limit-exceeded from
\* the session; from then on the link admits no Transfer.
OverCreditDetached ==
    \E i \in 1 .. Len(detach_requests) :
        detach_requests[i].error = Some(TransferLimitExceeded)
C7_OverCreditTerminal ==
    /\ []((rcv_last.op = "handle_transfer" /\ rcv_last.pre.credit = 0) =>
            /\ queue = rcv_last.pre.queue
            /\ detach_requests =
                    Append(rcv_last.pre.detach_requests,
                           [handle |-> rcv_handle, closed |-> TRUE,
                            error |-> Some(TransferLimitExceeded)]))
    /\ [][OverCreditDetached => admitted' = admitted]_vars

\* C8: every promise returned by send is resolved exactly once: never twice,
\* and eventually once (a send that panicked aside), sends made after the
\* link was detached included.
C8_ResolvedExactlyOnce ==
    \A m \in MsgIds :
        /\ [](Len(promise[m]) <= 1)
        /\ (nsends >= m) ~> (Len(promise[m]) = 1 \/ panicked)

\* C9: detached(e) and set_error(e) resolve every promise waiting in
\* pending_transfers with Err(e), leave the queue empty, hand none of the
\* waiting messages to the session and set the link's error to e.
C9_DetachFailsPending ==
    (last.op \in {"detached", "set_error"}) =>
        /\ \A i \in 1 .. Len(last.pre.pending_transfers) :
              LET m == last.pre.pending_transfers[i] IN
              promise[m] = Append(last.pre.promise[m], << "Err", last.err[1] >>)
        /\ pending_transfers = << >>
        /\ session_transfers = last.pre.session_transfers
        /\ error = last.err

\* a link was detached while two messages waited for credit
C9_Witness ==
    /\ last.op \in {"detached", "set_error"}
    /\ Len(last.pre.pending_transfers) >= 2
    /\ \A m \in MsgIds : promise[m] # << >>

\* C10: once the link's error is set, no send and no apply_flow hands a
\* Transfer to the session or leaves a message waiting in pending_transfers.
C10_TerminallyFailed ==
    [][error # None =>
          /\ session_transfers' = session_transfers
          /\ pending_transfers' = << >>]_vars

\* C11: poll returns Close only when at least the local timeout has passed
\* since the last inbound frame was recorded (the last update_local(true), or
\* the construction), however update_local, update_remote, the clock and the
\* polls interleave.
C11_CloseAfterLocalTimeout ==
    (hb_last.op = "poll" /\ hb_last.result = "Close") =>
        hb_last.at - last_inbound >= local

\* the connection was closed although frames had come in after its start
C11_Witness ==
    /\ hb_last.op = "poll"
    /\ hb_last.result = "Close"
    /\ last_inbound > 0
    /\ hb_last.pre.expire_remote > 0

\* C12: with a remote interval configured, the timer is never set later than
\* the remote deadline expire_remote + remote; the poll on which it fires with
\* that deadline, the local deadline not reached, returns Heartbeat; and once
\* the clock has reached the remote deadline, a polled heartbeat returns
\* Heartbeat unless an outbound frame is recorded, the local deadline is
\* reached or the heartbeat ends first.
RemoteDeadline == expire_remote + remote[1]
LocalDeadline == expire_local + local
C12_TimerWithinRemote ==
    (hb_state = "running" /\ remote # None) => delay.deadline <= RemoteDeadline
C12_FiresAtRemote ==
    (/\ hb_last.op = "poll"
     /\ hb_last.result # "Timeout"
     /\ hb_last.pre.remote # None
     /\ hb_last.at >= hb_last.pre.delay.deadline
     /\ hb_last.pre.delay.deadline
            >= hb_last.pre.expire_remote + hb_last.pre.remote[1]
     /\ hb_last.pre.delay.deadline
            < hb_last.pre.expire_local + hb_last.pre.local) =>
        hb_last.result = "Heartbeat"
C13_ClosesWhenSilent ==
    (hb_state = "running" /\ time - last_inbound >= local)
        ~> (hb_state # "running" \/ time - last_inbound < local)

\* C14: on a plain AMQP header the server first replies with the AMQP
\* header, then reads the peer's Open, and only then sends its own Open on
\* channel 0; on either branch a Connection is made only right after that
\* Open was sent, which follows the peer's Open, and it is made from the Open
\* received.
OpenSent == \E i \in 1 .. Len(hs_log) : hs_log[i][1] = "snd" /\ hs_log[i][2] = "frame"
C14_HandshakeOrder ==
    /\ (hs_log # << >> /\ hs_log[1] = Rcv("header", Read(Some("Amqp")))) =>
          /\ Len(hs_log) >= 2 => hs_log[2] = Snd("header", "Amqp")
          /\ Len(hs_log) >= 3 => hs_log[3][1] = "rcv" /\ hs_log[3][2] = "frame"
          /\ Len(hs_log) >= 4 =>
                /\ hs_log[3][3] \in {Read(Some(o)) : o \in Opens}
                /\ hs_log[4] = Snd("frame", [kind |-> "Open", channel |-> 0, local |-> cfg])
          /\ Len(hs_log) >= 5 => hs_log[5] = New("Connection", hs_log[3][3][2][1])
    /\ \A i \in 1 .. Len(hs_log) :
          /\ (hs_log[i][1] = "snd" /\ hs_log[i][2] = "frame") =>
                /\ i >= 3
                /\ hs_log[i - 1][1] = "rcv" /\ hs_log[i - 1][2] = "frame"
                /\ hs_log[i - 1][3] \in {Read(Some(o)) : o \in Opens}
                /\ hs_log[i - 2] = Snd("header", "Amqp")
          /\ (hs_log[i][1] = "new" /\ hs_log[i][2] = "Connection") =>
                /\ i >= 3
                /\ hs_log[i - 1] = Snd("frame", [kind |-> "Open", channel |-> 0, local |-> cfg])
                /\ hs_log[i - 2] = Rcv("frame", Read(Some(hs_log[i][3])))
    /\ connection # None =>
          /\ \E i \in 1 .. Len(hs_log) : hs_log[i] = New("Connection", connection[1])
          /\ connection[1] \in Opens
    /\ dispatcher => connection # None

\* the plain handshake went through: the Dispatcher has its Connection
C14_Witness ==
    /\ ~hs_sasl
    /\ hs_pc = "done"
    /\ dispatcher
    /\ connection # None

\* C15: a TLS header as the first header, and any header other than AMQP in
\* the header exchange after SASL, fails the handshake with
\* Unexpected{exp: Amqp, got: the header received}; no Open is sent and no
\* Connection and no Dispatcher is made.
HeaderRefused(i, p) ==
    /\ Len(hs_log) >= i
    /\ hs_log[i] = Rcv("header", Read(Some(p)))
C15_UnexpectedHeader ==
    \A p \in ProtocolIds :
        (\/ p = "AmqpTls" /\ HeaderRefused(1, p)
         \/ p # "Amqp" /\ hs_sasl /\ HeaderRefused(3, p)) =>
            /\ hs_pc = "failed"
            /\ hs_error = Some(Unexpected("Amqp", p))
            /\ ~OpenSent
            /\ connection = None
            /\ ~dispatcher

\* SASL went through and the peer then sent the SASL header once more
C15_Witness ==
    /\ hs_sasl
    /\ HeaderRefused(3, "AmqpSasl")
    /\ hs_error # None

\* C16: set_link_credit(n) raises the local credit by exactly n and emits
\* exactly one Flow, with the link's handle, the current delivery_count and,
\* as link-credit, the local credit after the addition.  Stated for the calls
\* whose sum is a u32.
C16_FlowCarriesCredit ==
    (rcv_last.op = "set_link_credit"
        /\ rcv_last.pre.credit + rcv_last.arg[1] <= U32Max) =>
        /\ rcv_credit = rcv_last.pre.credit + rcv_last.arg[1]
        /\ rcv_flows = Append(rcv_last.pre.rcv_flows,
                              [handle |-> rcv_handle,
                               delivery_count |-> rcv_delivery_count,
                               link_credit |-> rcv_credit])

\* C17: once a Detach has been requested for the link (by close or by a
\* Transfer beyond the credit), the stream ends: a poll eventually returns
\* None (a link whose task panicked aside).
C17_StreamEnds ==
    (detach_requests # << >>) ~>
        ((rcv_last.op = "poll" /\ rcv_last.result = << "Ready", None >>)
            \/ rcv_panicked)

\* C18: the incoming queue holds the latest admitted Transfers in admission
\* order and poll returns its head while it is non-empty; poll returns None
\* only on an empty queue of a closed link; on an empty queue of an open link
\* it registers the reader and returns not-ready, with credit, delivery_count
\* and queue as they were.
C18_PollContract ==
    /\ Len(queue) <= Len(admitted)
    /\ queue = SubSeq(admitted, Len(admitted) - Len(queue) + 1, Len(admitted))
    /\ rcv_last.op = "poll" =>
          LET pre == rcv_last.pre IN
          /\ pre.queue # << >> =>
                /\ rcv_last.result = << "Ready", Some(Head(pre.queue)) >>
                /\ queue = Tail(pre.queue)
          /\ rcv_last.result = << "Ready", None >> =>
                pre.queue = << >> /\ pre.closed
          /\ (pre.queue = << >> /\ ~pre.closed) =>
                /\ rcv_last.result = << "NotReady" >>
                /\ reader_task = "registered"
                /\ queue = << >>
          /\ rcv_credit = pre.credit
          /\ rcv_delivery_count = pre.delivery_count

\* two Transfers were queued and poll returned the older one
C18_Witness ==
    /\ rcv_last.op = "poll"
    /\ Len(rcv_last.pre.queue) >= 2
    /\ rcv_last.result = << "Ready", Some(Head(rcv_last.pre.queue)) >>
    /\ queue # << >>

\* C19: a send on a link with link_credit > 0 takes exactly one credit,
\* counts exactly one delivery, hands exactly that message with its
\* unresolved promise to the session for the link's remote handle, and leaves
\* pending_transfers as it was.
C19_SendWithCredit ==
    (last.op = "send" /\ last.pre.link_credit > 0) =>
        /\ link_credit = last.pre.link_credit - 1
        /\ delivery_count = last.pre.delivery_count + 1
        /\ session_transfers =
              Append(last.pre.session_transfers,
                     [handle |-> remote_handle, message |-> last.msg,
                      credit |-> last.pre.link_credit])
        /\ promise = last.pre.promise
        /\ promise[last.msg] = << >>
        /\ pending_transfers = last.pre.pending_transfers

\* a message was sent on a link that held credit
C19_Witness ==
    /\ last.op = "send"
    /\ last.pre.link_credit > 0
    /\ last.pre.session_transfers # << >>
    /\ Len(session_transfers) = Len(last.pre.session_transfers) + 1

\* C20: handle_transfer on a link with credit > 0 takes exactly one credit,
\* counts exactly one delivery and appends the Transfer at the tail of the
\* queue, so that credit + delivery_count is what it was.  The count and the
\* sum are taken as SequenceNo values, modulo the width of u32.
C20_AdmissionKeepsSum ==
    (rcv_last.op = "handle_transfer" /\ rcv_last.pre.credit > 0) =>
        /\ rcv_credit = rcv_last.pre.credit - 1
        /\ rcv_delivery_count = add_u32(rcv_last.pre.delivery_count, 1).v
        /\ queue = Append(rcv_last.pre.queue, rcv_last.arg[1])
        /\ add_u32(rcv_credit, rcv_delivery_count).v
              = add_u32(rcv_last.pre.credit, rcv_last.pre.delivery_count).v

\* C21: when apply_flow has processed a Flow whose echo flag is set, the link
\* has asked the session for one Flow reply that carries its delivery_count
\* and link_credit (an apply_flow that panicked aside).
C21_EchoReplied ==
    (last.op = "apply_flow" /\ last.flow.echo /\ ~panicked) =>
        session_flows = Append(last.pre.session_flows,
                               [handle |-> remote_handle,
                                delivery_count |-> delivery_count,
                                link_credit |-> link_credit])

\* C22: the poll that returns Heartbeat advances expire_remote to the time of
\* the poll and sets the timer to a deadline later than the one that fired,
\* so that the next poll does not return Heartbeat again at once.
C22_HeartbeatAdvancesRemote ==
    (hb_last.op = "poll" /\ hb_last.result = "Heartbeat") =>
        /\ expire_remote = hb_last.at
        /\ delay.deadline > hb_last.pre.delay.deadline
        /\ hb_poll(Heartbeat, time).result # "Heartbeat"

TransferLimitDetaches ==
    {i \in 1 .. Len(detach_requests) : detach_requests[i].error = Some(TransferLimitExceeded)}

C24_PeerWithinCredit ==
    /\ TransferLimitDetaches = {}
    /\ ~rcv_panicked => rcv_credit >= PeerCredit

\* C25: in every state of the sender link, messages wait in pending_transfers
\* only while link_credit is 0.
C25_PendingMeansNoCredit ==
    pending_transfers # << >> => link_credit = 0

\* an apply_flow that handed over the head of pending_transfers and ran out
\* of credit with a message still waiting
C25_Witness ==
    /\ last.op = "apply_flow" /\ ~panicked
    /\ pending_transfers # << >>
    /\ Len(pending_transfers) < Len(last.pre.pending_transfers)
    /\ Len(session_transfers) > Len(last.pre.session_transfers)

\* C26: every message given to send is accounted for once: handed to the
\* session once, or waiting in pending_transfers, or failed with the error of
\* the detach; so the three counts add up to the number of send calls.
HandedCount(m) ==
    Cardinality({i \in 1 .. Len(session_transfers) : session_transfers[i].message = m})
PendingCount(m) ==
    Cardinality({i \in 1 .. Len(pending_transfers) : pending_transfers[i] = m})
FailedCount(m) ==
    Cardinality({i \in 1 .. Len(promise[m]) : promise[m][i][1] = "Err"})
FailedTotal == Cardinality({m \in 1 .. MaxSends : FailedCount(m) > 0})

C26_NoMessageLost ==
    /\ \A m \in 1 .. MaxSends :
          HandedCount(m) + PendingCount(m) + FailedCount(m) = IF m <= nsends THEN 1 ELSE 0
    /\ nsends = Len(session_transfers) + Len(pending_transfers) + FailedTotal

\* every send was made; one message was handed over and another failed
C26_Witness ==
    /\ nsends = MaxSends
    /\ session_transfers # << >>
    /\ FailedTotal > 0

\* C27: no u32 addition or subtraction that apply_flow performs on the
\* counters of the link and of the Flow overflows or underflows, whatever the
\* Flow.
ApplyFlowOverflows(self, flow) ==
    /\ flow.link_credit # None
    /\ LET fsum == add_u32(unwrap_or(flow.delivery_count, 0), flow.link_credit[1])
           osum == add_u32(self.delivery_count, self.link_credit)
           delta == sub_u32(fsum.v, osum.v)
           grown == add_u32(self.link_credit, delta.v)
           inner == add_u32(self.link_credit, delta.v)
           doubled == add_u32(self.link_credit, max_u32(0, inner.v))
       IN  \/ fsum.ovf \/ osum.ovf \/ delta.ovf
           \/ IF delta.v > 0 THEN grown.ovf ELSE inner.ovf \/ doubled.ovf

C27_ApplyFlowInRange ==
    last.op = "apply_flow" => ~ApplyFlowOverflows(last.pre, last.flow)

\* C28: the link asks the session for at most one Detach; once it has asked,
\* a close is answered Ok at once and a Transfer that finds no credit asks for
\* nothing more.
C28_OneDetach ==
    /\ Len(detach_requests) <= 1
    /\ (rcv_last.op = "close" /\ rcv_last.pre.detach_requests # << >>) =>
            close_replies = Append(rcv_last.pre.close_replies, "Ok")

\* C29: a reader that poll has parked is notified by the handle_transfer that
\* admits a Transfer, and a Transfer that arrives while the link has credit
\* is queued whether a reader is parked or not.
C29_ParkedReaderNotified ==
    (rcv_last.op = "handle_transfer" /\ rcv_last.pre.reader_task = "registered"
        /\ Len(queue) > Len(rcv_last.pre.queue)) => reader_task = "notified"

C29_NoLostWakeup ==
    /\ C29_ParkedReaderNotified
    /\ (rcv_last.op = "handle_transfer" /\ rcv_last.pre.credit > 0) =>
            queue = Append(rcv_last.pre.queue, rcv_last.arg[1])

\* C30: when the frame read after the header exchange is not an Open, the
\* handshake fails with Unexpected carrying that frame; when the stream ends
\* where a header or a frame is awaited, it fails with Disconnected.  Either
\* way no Open was sent, the factory was not called on the plain path, and
\* no Connection and no Dispatcher was made.
LastRead == hs_log[Len(hs_log)]
NotOpenRead ==
    /\ hs_log # << >>
    /\ LastRead[1] = "rcv" /\ LastRead[2] = "frame"
    /\ LastRead[3] \in {Read(Some(f)) : f \in OtherFrames}
StreamEnded ==
    /\ hs_log # << >>
    /\ LastRead[1] = "rcv"
    /\ LastRead[3] = Read(None)
FactoryCalled == \E i \in 1 .. Len(hs_log) : hs_log[i][1] = "call"
Constructed == \E i \in 1 .. Len(hs_log) : hs_log[i][1] = "new"
FailedClosed ==
    /\ hs_pc = "failed"
    /\ ~OpenSent
    /\ ~hs_sasl => ~FactoryCalled
    /\ ~Constructed
    /\ connection = None
    /\ ~dispatcher

C30_OpenFailsClosed ==
    /\ NotOpenRead =>
          /\ hs_error = Some([error |-> "Unexpected", frame |-> LastRead[3][2][1]])
          /\ FailedClosed
    /\ StreamEnded =>
          /\ hs_error = Some(HandshakeError(
                IF LastRead[2] = "header" /\ Len(hs_log) > 1
                   THEN "ProtocolIdError::Disconnected" ELSE "Disconnected"))
          /\ FailedClosed

\* on the plain path the peer sent a Begin where its Open was awaited
C30_Witness ==
    /\ ~hs_sasl
    /\ NotOpenRead
    /\ hs_log[1] = Rcv("header", Read(Some("Amqp")))
    /\ hs_error # None

\* C31: as_long of an integer Variant is Some of the number the Variant
\* holds, for every value of its type, and as_long of any other Variant is
\* None.
C31_AsLongKeepsValue ==
    variant_long.done =>
        variant_long.result =
            IF variant_a.kind \in IntegerKinds
               THEN Some(variant_a.content[1]) ELSE None

====
